---------------------------- MODULE Spec2Model ----------------------------
(***************************************************************************)
(* Model of jwilder/encoding: the Simple8b word packer (package simple8b), *)
(* and the adaptive timestamp codec built on it (package timestamp).       *)
(*                                                                         *)
(* A uint64 is modelled as the set of the positions (0..63) of its 1 bits, *)
(* so that shifts, masks and ORs are exact and no value is truncated to    *)
(* the checker's 32-bit integers.  An int64 is the same 64 bits read as    *)
(* two's complement, so uint64(v) and int64(v) keep the bits.  Arithmetic  *)
(* is done on four 16-bit limbs and wraps modulo 2^64 as in Go.            *)
(***************************************************************************)
EXTENDS Integers, Sequences, FiniteSets, TLC

VARIABLES
  bulkIn,    \* the values handed to Encode / EncodeAll (the caller's copy)
  bulkPc,    \* which of the package-level functions have been called
  encOne,    \* what Encode returned
  decOne,    \* what Decode returned and the array it wrote
  encAll,    \* what EncodeAll returned
  counted,   \* what CountBytes returned
  decAll     \* what DecodeAll returned and the slice it wrote

VARIABLES
  encoder,   \* the streaming Encoder: buf, h, t, bp, bytes, b
  ret,       \* the last call on the Encoder and what it returned
  written,   \* the values Write stored since NewEncoder or the last Reset
  sawBig,    \* a Write since then was given a value above MaxValue
  fresh,     \* Reset has not been called
  nBytes,    \* the calls of Bytes since NewEncoder or the last Reset
  nWrites,   \* the calls of Write so far
  ops,       \* the calls made after the opening run of equal writes
  onRun      \* every call so far was a Write of one and the same value

VARIABLES
  tsEncoder, \* the timestamp encoder: its ts, the nanoseconds written
  tsRet,     \* the last call on the timestamp encoder and what it returned
  tsRead,    \* what NewDecoder and the Next/Read loop gave for tsRet.bytes
  tsPc,      \* "write", then "encoded" after Bytes, "decoded" after the loop
  tsDevs     \* the writes whose step differs from the first step

VARIABLES
  forIn,     \* the int64 sequence handed to FORDelta10 (the caller's copy)
  forOut,    \* what FORDelta10 returned
  forBack,   \* what InverseFORDelta10 returned, and the slice it scaled
  redOut,    \* what reduce returned on a timestamp encoder holding forIn
  forPc      \* which of them have been called

VARIABLES
  decIn,       \* the bytes handed to a decoder, and the values encoded in them
  s8,          \* the simple8b Decoder: bytes, buf, i, n
  td,          \* the timestamp decoder: v, ts
  decRet,      \* the last call on the decoder and what it returned
  nTrue,       \* the calls of Next that returned true
  sawFalse,    \* a call of Next has returned false
  trueAtFalse, \* nTrue when Next first returned false
  nAfter,      \* the calls of Next made after that
  nResets,     \* the calls of Reset on the simple8b Decoder
  decPc        \* "start", then "s8" or "td" once constructed, or "panicked"

bulkVars == <<bulkIn, bulkPc, encOne, decOne, encAll, counted, decAll>>
streamVars == <<encoder, ret, written, sawBig, fresh, nBytes, nWrites, ops, onRun>>
tsVars == <<tsEncoder, tsRet, tsRead, tsPc, tsDevs>>
deltaVars == <<forIn, forOut, forBack, redOut, forPc>>
decVars == <<decIn, s8, td, decRet, nTrue, sawFalse, trueAtFalse, nAfter, nResets, decPc>>
vars == <<bulkVars, streamVars, tsVars, deltaVars, decVars>>

\* ------------------------------------------------------------------------
\* 64-bit words
\* ------------------------------------------------------------------------

Bits64 == 0..63

\* the word whose value is the small natural n (n < 2^31)
W(n) == {p \in 0..30 : (n \div (2^p)) % 2 = 1}

\* v << k and v >> k on uint64: bits shifted out are lost
Shl(v, k) == {p + k : p \in {q \in v : q + k <= 63}}
Shr(v, k) == {p - k : p \in {q \in v : q >= k}}

\* (1 << bits) - 1
Mask(bits) == 0..(bits - 1)

\* unsigned comparison a > b: the highest bit in which they differ is a's
UGt(a, b) == \E p \in a \ b : \A q \in b \ a : q < p

\* limb j (0..3) of a word, base 2^16, and the word of four limbs
BitVal(v, p, b) == IF p + b \in v THEN 2^b ELSE 0
Limb(v, j) ==
  LET p == 16 * j
  IN BitVal(v, p, 0) + BitVal(v, p, 1) + BitVal(v, p, 2) + BitVal(v, p, 3)
     + BitVal(v, p, 4) + BitVal(v, p, 5) + BitVal(v, p, 6) + BitVal(v, p, 7)
     + BitVal(v, p, 8) + BitVal(v, p, 9) + BitVal(v, p, 10) + BitVal(v, p, 11)
     + BitVal(v, p, 12) + BitVal(v, p, 13) + BitVal(v, p, 14) + BitVal(v, p, 15)
FromLimbs(l0, l1, l2, l3) ==
  LET ls == <<l0, l1, l2, l3>>
  IN {p \in Bits64 : (ls[(p \div 16) + 1] \div (2^(p % 16))) % 2 = 1}

\* ------------------------------------------------------------------------
\* int64 arithmetic.  An int64 is the tuple of the four 16-bit limbs of its
\* two's complement, low limb first; every operation wraps modulo 2^64
\* ------------------------------------------------------------------------

\* int64(v) of a uint64 word, and uint64(a) of an int64
I64(v) == <<Limb(v, 0), Limb(v, 1), Limb(v, 2), Limb(v, 3)>>
U64(a) == FromLimbs(a[1], a[2], a[3], a[4])

\* the int64 of a small natural n (n < 2^31)
Nat64(n) == <<n % 65536, n \div 65536, 0, 0>>
Zero == Nat64(0)
One == Nat64(1)

\* TLC evaluates the argument of an operator where it is first used; Now(x)
\* has it evaluated before a recursive call
Now(x) == x = x

Carry(s0, s1, s2, s3) ==
  <<s0 % 65536,
    (s1 + (s0 \div 65536)) % 65536,
    (s2 + ((s1 + (s0 \div 65536)) \div 65536)) % 65536,
    (s3 + ((s2 + ((s1 + (s0 \div 65536)) \div 65536)) \div 65536)) % 65536>>

\* a + b, -a, a - b
Add64(a, b) == Carry(a[1] + b[1], a[2] + b[2], a[3] + b[3], a[4] + b[4])
Neg64(a) == Carry(65536 - a[1], 65535 - a[2], 65535 - a[3], 65535 - a[4])
Sub64(a, b) == Add64(a, Neg64(b))

\* a < 0 and the signed comparison a < b
IsNeg(a) == a[4] >= 32768
SLt(a, b) ==
  IF IsNeg(a) # IsNeg(b) THEN IsNeg(a)
  ELSE IF a[4] # b[4] THEN a[4] < b[4]
  ELSE IF a[3] # b[3] THEN a[3] < b[3]
  ELSE IF a[2] # b[2] THEN a[2] < b[2]
  ELSE a[1] < b[1]

\* a * 10
Mul10(a) == Carry(a[1] * 10, a[2] * 10, a[3] * 10, a[4] * 10)

\* unsigned a / 10 and a % 10, by long division from the high limb
UDiv10(a) ==
  <<((((((a[4] % 10) * 65536 + a[3]) % 10) * 65536 + a[2]) % 10) * 65536 + a[1]) \div 10,
    ((((a[4] % 10) * 65536 + a[3]) % 10) * 65536 + a[2]) \div 10,
    ((a[4] % 10) * 65536 + a[3]) \div 10,
    a[4] \div 10>>
URem10(a) ==
  ((((((a[4] % 10) * 65536 + a[3]) % 10) * 65536 + a[2]) % 10) * 65536 + a[1]) % 10

\* a / 10 and a % 10 == 0 on int64, truncating toward zero as Go does
SDiv10(a) == IF IsNeg(a) THEN Neg64(UDiv10(Neg64(a))) ELSE UDiv10(a)
SRem10IsZero(a) == IF IsNeg(a) THEN URem10(Neg64(a)) = 0 ELSE URem10(a) = 0

\* a * 10^e (0 stays 0), and 10^e, e >= 0
RECURSIVE MulPow10(_, _)
MulPow10(a, e) == IF e = 0 \/ a = Zero THEN a ELSE MulPow10(Mul10(a), e - 1)
Pow10W(e) == MulPow10(One, e)

\* ------------------------------------------------------------------------
\* package simple8b: selector table, canPack, pack and unpack
\* ------------------------------------------------------------------------

\* const MaxValue = (1 << 60) - 1
MaxValue == Mask(60)

\* the selector table: n values of bit width per selector
SelN == <<240, 120, 60, 30, 20, 15, 12, 10, 8, 7, 6, 5, 4, 3, 2, 1>>
SelBit == <<0, 0, 1, 2, 3, 4, 5, 6, 7, 8, 10, 12, 15, 20, 30, 60>>

\* slices are sequences: Go index i is sequence index i + 1
Slice(s, lo, hi) == SubSeq(s, lo + 1, hi)

\* canPack with the zero-width rows looking at the first n values only
canPackFirstN(src, n, bits) ==
  IF Len(src) < n THEN FALSE
  ELSE \A i \in 1..n : IF bits = 0 THEN src[i] = W(1) ELSE ~UGt(src[i], Mask(bits))

\* canPack without the length check for the zero-width rows
canPackNoLen(src, n, bits) ==
  IF bits = 0 THEN \A i \in 1..Len(src) : src[i] = W(1)
  ELSE IF Len(src) < n THEN FALSE
  ELSE \A i \in 1..n : ~UGt(src[i], Mask(bits))

\* canPack returns true if n elements from src can be stored using bits per
\* element; for bits = 0 the loop ranges over the whole of src
canPack(src, n, bits) ==
  IF Len(src) < n THEN FALSE
  ELSE IF bits = 0 THEN \A i \in 1..Len(src) : src[i] = W(1)
  ELSE LET end == IF n < Len(src) THEN n ELSE Len(src)
       IN \A i \in 1..end : ~UGt(src[i], Mask(bits))

\* sel<<60 | src[0] | src[1]<<bits | ... | src[n-1]<<((n-1)*bits), the
\* common shape of pack60 .. pack1; the operands are not masked
PackWord(sel, src, n, bits) ==
  Shl(W(sel), 60) \cup UNION {Shl(src[i + 1], i * bits) : i \in 0..(n - 1)}

pack60(src) == PackWord(2, src, 60, 1)
pack30(src) == PackWord(3, src, 30, 2)
pack20(src) == PackWord(4, src, 20, 3)
pack15(src) == PackWord(5, src, 15, 4)
pack12(src) == PackWord(6, src, 12, 5)
pack10(src) == PackWord(7, src, 10, 6)
pack8(src) == PackWord(8, src, 8, 7)
pack7(src) == PackWord(9, src, 7, 8)
pack6(src) == PackWord(10, src, 6, 10)
pack5(src) == PackWord(11, src, 5, 12)
pack4(src) == PackWord(12, src, 4, 15)
pack3(src) == PackWord(13, src, 3, 20)
pack2(src) == PackWord(14, src, 2, 30)
pack1(src) == PackWord(15, src, 1, 60)

\* Encode packs as many values as it can into a single word
Encode(src) ==
  IF canPack(src, 240, 0) THEN [value |-> W(0), n |-> 240, err |-> FALSE]
  ELSE IF canPack(src, 120, 0) THEN [value |-> Shl(W(1), 60), n |-> 120, err |-> FALSE]
  ELSE IF canPack(src, 60, 1) THEN [value |-> pack60(Slice(src, 0, 60)), n |-> 60, err |-> FALSE]
  ELSE IF canPack(src, 30, 2) THEN [value |-> pack30(Slice(src, 0, 30)), n |-> 30, err |-> FALSE]
  ELSE IF canPack(src, 20, 3) THEN [value |-> pack20(Slice(src, 0, 20)), n |-> 20, err |-> FALSE]
  ELSE IF canPack(src, 15, 4) THEN [value |-> pack15(Slice(src, 0, 15)), n |-> 15, err |-> FALSE]
  ELSE IF canPack(src, 12, 5) THEN [value |-> pack12(Slice(src, 0, 12)), n |-> 12, err |-> FALSE]
  ELSE IF canPack(src, 10, 6) THEN [value |-> pack10(Slice(src, 0, 10)), n |-> 10, err |-> FALSE]
  ELSE IF canPack(src, 8, 7) THEN [value |-> pack8(Slice(src, 0, 8)), n |-> 8, err |-> FALSE]
  ELSE IF canPack(src, 7, 8) THEN [value |-> pack7(Slice(src, 0, 7)), n |-> 7, err |-> FALSE]
  ELSE IF canPack(src, 6, 10) THEN [value |-> pack6(Slice(src, 0, 6)), n |-> 6, err |-> FALSE]
  ELSE IF canPack(src, 5, 12) THEN [value |-> pack5(Slice(src, 0, 5)), n |-> 5, err |-> FALSE]
  ELSE IF canPack(src, 4, 15) THEN [value |-> pack4(Slice(src, 0, 4)), n |-> 4, err |-> FALSE]
  ELSE IF canPack(src, 3, 20) THEN [value |-> pack3(Slice(src, 0, 3)), n |-> 3, err |-> FALSE]
  ELSE IF canPack(src, 2, 30) THEN [value |-> pack2(Slice(src, 0, 2)), n |-> 2, err |-> FALSE]
  ELSE IF canPack(src, 1, 60) THEN [value |-> pack1(Slice(src, 0, 1)), n |-> 1, err |-> FALSE]
  ELSE IF Len(src) > 0 THEN [value |-> W(0), n |-> 0, err |-> TRUE]
  ELSE [value |-> W(0), n |-> 0, err |-> FALSE]

\* the slots an unpack function writes through its *[240]uint64: slot i
\* (0-based) receives Slot(i); the other slots keep what they held
unpack240(v) == [i \in 0..239 |-> W(1)]
unpack120(v) == [i \in 0..239 |-> W(1)]
UnpackNoMask(v, n, bits) == [i \in 0..(n - 1) |-> Shr(v, i * bits)]
UnpackBits(v, n, bits) == [i \in 0..(n - 1) |-> Shr(v, i * bits) \cap Mask(bits)]
unpack60(v) == UnpackBits(v, 60, 1)
unpack30(v) == UnpackBits(v, 30, 2)
unpack20(v) == UnpackBits(v, 20, 3)
unpack15(v) == UnpackBits(v, 15, 4)
unpack12(v) == UnpackBits(v, 12, 5)
unpack10(v) == UnpackBits(v, 10, 6)
unpack8(v) == UnpackBits(v, 8, 7)
unpack7(v) == UnpackBits(v, 7, 8)
unpack6(v) == UnpackBits(v, 6, 10)
unpack5(v) == UnpackBits(v, 5, 12)
unpack4(v) == UnpackBits(v, 4, 15)
unpack3(v) == UnpackBits(v, 3, 20)
unpack2(v) == UnpackBits(v, 2, 30)
unpack1(v) == UnpackBits(v, 1, 60)

\* sel := v >> 60, as a number 0..15
SelOf(v) == Limb(Shr(v, 60), 0)

\* selector[sel].unpack(v, dst): the writes, as a function from the 0-based
\* slot written to the value stored in it
Unpack(sel, v) ==
  CASE sel = 0 -> unpack240(v)
    [] sel = 1 -> unpack120(v)
    [] sel = 2 -> unpack60(v)
    [] sel = 3 -> unpack30(v)
    [] sel = 4 -> unpack20(v)
    [] sel = 5 -> unpack15(v)
    [] sel = 6 -> unpack12(v)
    [] sel = 7 -> unpack10(v)
    [] sel = 8 -> unpack8(v)
    [] sel = 9 -> unpack7(v)
    [] sel = 10 -> unpack6(v)
    [] sel = 11 -> unpack5(v)
    [] sel = 12 -> unpack4(v)
    [] sel = 13 -> unpack3(v)
    [] sel = 14 -> unpack2(v)
    [] sel = 15 -> unpack1(v)

\* Decode(dst *[240]uint64, v): the array after the call and the count
Decode(dst, v) ==
  LET sel == SelOf(v)
      wr == Unpack(sel, v)
  IN IF sel >= 16 THEN [n |-> 0, err |-> TRUE, dst |-> dst]
     ELSE [n |-> SelN[sel + 1], err |-> FALSE,
           dst |-> [i \in 1..240 |-> IF (i - 1) \in DOMAIN wr THEN wr[i - 1] ELSE dst[i]]]

\* Count returns the number of integers encoded within a word
Count(v) ==
  LET sel == SelOf(v)
  IN IF sel >= 16 THEN [n |-> 0, err |-> TRUE] ELSE [n |-> SelN[sel + 1], err |-> FALSE]

\* binary.BigEndian.PutUint64 / Uint64: byte k (0..7) holds bits
\* 8*(7-k) .. 8*(7-k)+7 of the word
ByteOf(v, k) ==
  LET p == 8 * (7 - k)
  IN BitVal(v, p, 0) + BitVal(v, p, 1) + BitVal(v, p, 2) + BitVal(v, p, 3)
     + BitVal(v, p, 4) + BitVal(v, p, 5) + BitVal(v, p, 6) + BitVal(v, p, 7)
PutUint64(v) == [k \in 1..8 |-> ByteOf(v, k - 1)]
Uint64(b) ==
  {p \in Bits64 : (b[8 - (p \div 8)] \div (2^(p % 8))) % 2 = 1}

\* the words of EncodeAll's result serialised as 8-byte big-endian words
WordsToBytes(ws) == [k \in 1..(8 * Len(ws)) |-> ByteOf(ws[((k - 1) \div 8) + 1], (k - 1) % 8)]

\* EncodeAll: one turn of the loop.  dst is src itself, so the packed word
\* is stored into the array being read, at j
EncodeAllPut(st, word, n) ==
  [st EXCEPT !.arr[st.j + 1] = word, !.i = st.i + n, !.j = st.j + 1]
EncodeAllStep(st) ==
  LET remaining == Slice(st.arr, st.i, Len(st.arr))
  IN
     IF canPack(remaining, 240, 0) THEN EncodeAllPut(st, W(0), 240)
     ELSE IF canPack(remaining, 120, 0) THEN EncodeAllPut(st, Shl(W(1), 60), 120)
     ELSE IF canPack(remaining, 60, 1) THEN EncodeAllPut(st, pack60(Slice(st.arr, st.i, st.i + 60)), 60)
     ELSE IF canPack(remaining, 30, 2) THEN EncodeAllPut(st, pack30(Slice(st.arr, st.i, st.i + 30)), 30)
     ELSE IF canPack(remaining, 20, 3) THEN EncodeAllPut(st, pack20(Slice(st.arr, st.i, st.i + 20)), 20)
     ELSE IF canPack(remaining, 15, 4) THEN EncodeAllPut(st, pack15(Slice(st.arr, st.i, st.i + 15)), 15)
     ELSE IF canPack(remaining, 12, 5) THEN EncodeAllPut(st, pack12(Slice(st.arr, st.i, st.i + 12)), 12)
     ELSE IF canPack(remaining, 10, 6) THEN EncodeAllPut(st, pack10(Slice(st.arr, st.i, st.i + 10)), 10)
     ELSE IF canPack(remaining, 8, 7) THEN EncodeAllPut(st, pack8(Slice(st.arr, st.i, st.i + 8)), 8)
     ELSE IF canPack(remaining, 7, 8) THEN EncodeAllPut(st, pack7(Slice(st.arr, st.i, st.i + 7)), 7)
     ELSE IF canPack(remaining, 6, 10) THEN EncodeAllPut(st, pack6(Slice(st.arr, st.i, st.i + 6)), 6)
     ELSE IF canPack(remaining, 5, 12) THEN EncodeAllPut(st, pack5(Slice(st.arr, st.i, st.i + 5)), 5)
     ELSE IF canPack(remaining, 4, 15) THEN EncodeAllPut(st, pack4(Slice(st.arr, st.i, st.i + 4)), 4)
     ELSE IF canPack(remaining, 3, 20) THEN EncodeAllPut(st, pack3(Slice(st.arr, st.i, st.i + 3)), 3)
     ELSE IF canPack(remaining, 2, 30) THEN EncodeAllPut(st, pack2(Slice(st.arr, st.i, st.i + 2)), 2)
     ELSE IF canPack(remaining, 1, 60) THEN EncodeAllPut(st, pack1(Slice(st.arr, st.i, st.i + 1)), 1)
     ELSE [st EXCEPT !.err = TRUE]

\* the loop is run in blocks of LoopBlock turns to keep the evaluation
\* stack shallow; a block stops at i >= len(src) or at the error return
LoopBlock == 16
RECURSIVE EncodeAllBlock(_, _)
EncodeAllBlock(st, k) ==
  IF k = 0 \/ st.err \/ st.i >= Len(st.arr) THEN st
  ELSE EncodeAllBlock(EncodeAllStep(st), k - 1)
RECURSIVE EncodeAllLoop(_)
EncodeAllLoop(st) ==
  IF st.err \/ st.i >= Len(st.arr) THEN st
  ELSE EncodeAllLoop(EncodeAllBlock(st, LoopBlock))

\* EncodeAll returns dst[:j], or nil and an error
EncodeAll(src) ==
  LET st == EncodeAllLoop([arr |-> src, i |-> 0, j |-> 0, err |-> FALSE])
  IN IF st.err THEN [words |-> <<>>, err |-> TRUE]
     ELSE [words |-> Slice(st.arr, 0, st.j), err |-> FALSE]

\* DecodeAll: one turn of the loop over src.  &dst[j] is bounds-checked
\* (a run-time panic when j >= len(dst)); the unpack function then writes
\* through a *[240]uint64 made with unsafe.Pointer, with no bounds check:
\* a write at or beyond len(dst) lands outside the slice (oob)
DecodeAllStep(st, v) ==
  LET sel == SelOf(v)
      wr == Unpack(sel, v)
  IN IF sel >= 16 THEN [st EXCEPT !.err = TRUE]
     ELSE IF st.j >= Len(st.dst) THEN [st EXCEPT !.panic = TRUE]
     ELSE [st EXCEPT
             !.dst = [i \in 1..Len(st.dst) |->
                        IF (i - 1 - st.j) \in DOMAIN wr THEN wr[i - 1 - st.j] ELSE st.dst[i]],
             !.oob = st.oob \/ (\E i \in DOMAIN wr : st.j + i >= Len(st.dst)),
             !.j = st.j + SelN[sel + 1]]
RECURSIVE DecodeAllBlock(_, _, _, _)
DecodeAllBlock(st, src, k, hi) ==
  IF k > hi \/ k > Len(src) \/ st.err \/ st.panic THEN st
  ELSE DecodeAllBlock(DecodeAllStep(st, src[k]), src, k + 1, hi)
RECURSIVE DecodeAllLoop(_, _, _)
DecodeAllLoop(st, src, k) ==
  IF k > Len(src) \/ st.err \/ st.panic THEN st
  ELSE DecodeAllLoop(DecodeAllBlock(st, src, k, k + LoopBlock - 1), src, k + LoopBlock)

\* DecodeAll(dst, src): the count returned, the slice afterwards, whether it
\* returned the error, panicked, or wrote outside dst
DecodeAll(dst, src) ==
  LET st == DecodeAllLoop([dst |-> dst, j |-> 0, err |-> FALSE, panic |-> FALSE, oob |-> FALSE],
                          src, 1)
  IN [n |-> IF st.err THEN 0 ELSE st.j, err |-> st.err, panic |-> st.panic,
      oob |-> st.oob, dst |-> st.dst]

\* CountBytes: the sum of Count over the 8-byte words of b; 0 and an error at
\* the first word Count rejects or when bytes remain
RECURSIVE SumCount(_, _, _)
SumCount(b, lo, hi) ==
  IF lo > hi THEN 0
  ELSE IF lo = hi THEN Count(Uint64(SubSeq(b, 8 * lo - 7, 8 * lo))).n
  ELSE LET mid == (lo + hi) \div 2
       IN SumCount(b, lo, mid) + SumCount(b, mid + 1, hi)
CountBytes(b) ==
  LET nw == Len(b) \div 8
  IN IF \E k \in 1..nw : Count(Uint64(SubSeq(b, 8 * k - 7, 8 * k))).err
       THEN [n |-> 0, err |-> TRUE]
     ELSE IF Len(b) % 8 > 0 THEN [n |-> 0, err |-> TRUE]
     ELSE [n |-> SumCount(b, 1, nw), err |-> FALSE]

\* the outcomes of DecodeAll(dst, src).  A write outside dst goes through an
\* unsafe pointer: it overwrites whatever lies behind the slice, after which
\* the call may still return (outcome "returned") or the program's memory is
\* corrupted (outcome "corrupted"); a failed bounds check is a panic
DecodeAllOutcomes(dst, src) ==
  LET r == DecodeAll(dst, src)
      back == [outcome |-> "returned", n |-> r.n, err |-> r.err, dst |-> r.dst]
  IN IF r.panic THEN {[outcome |-> "panic", n |-> 0, err |-> FALSE, dst |-> r.dst]}
     ELSE IF r.oob THEN {back, [back EXCEPT !.outcome = "corrupted"]}
     ELSE {back}

\* ------------------------------------------------------------------------
\* package simple8b: the streaming Encoder
\* ------------------------------------------------------------------------

\* NewEncoder: buf of 240 values, b of 8 bytes, bytes of 128 bytes
NewEncoder ==
  [buf |-> [i \in 1..240 |-> W(0)], h |-> 0, t |-> 0, bp |-> 0,
   bytes |-> [i \in 1..128 |-> 0], b |-> [i \in 1..8 |-> 0]]

\* a Reset that leaves bp where it was
Encoder_ResetKeepBp(e) ==
  [e EXCEPT !.t = 0, !.h = 0,
            !.buf = Slice(e.buf, 0, 240), !.b = Slice(e.b, 0, 8),
            !.bytes = Slice(e.bytes, 0, 128)]

\* Reset: the indexes go back to 0 and the slices to their first lengths;
\* reslicing keeps what the first 128 bytes hold
Encoder_Reset(e) ==
  [e EXCEPT !.t = 0, !.h = 0, !.bp = 0,
            !.buf = Slice(e.buf, 0, 240), !.b = Slice(e.b, 0, 8),
            !.bytes = Slice(e.bytes, 0, 128)]

\* nil error
Ok(e) == [e |-> e, err |-> FALSE]

\* the second half of flush that steps over a value Encode could not pack
\* instead of returning the error
flushPutSkip(e, r) ==
  LET b8 == PutUint64(r.value)
      grown == e.bp + 8 > Len(e.bytes)
      h2 == e.h + (IF r.err THEN 1 ELSE r.n)
  IN Ok([e EXCEPT !.b = b8,
                  !.bytes = IF grown THEN e.bytes \o b8
                            ELSE [k \in 1..Len(e.bytes) |->
                                    IF k > e.bp /\ k <= e.bp + 8 THEN b8[k - e.bp]
                                    ELSE e.bytes[k]],
                  !.bp = IF grown THEN Len(e.bytes) + 8 ELSE e.bp + 8,
                  !.h = IF h2 = e.t THEN 0 ELSE h2,
                  !.t = IF h2 = e.t THEN 0 ELSE e.t])

\* the second half of flush, r being what Encode returned: return its
\* error, or put the word, big endian, at bp (appending when bytes is
\* full), move h forward and reset h and t when they meet
flushPut(e, r) ==
  IF r.err THEN [e |-> e, err |-> TRUE]
  ELSE
    LET b8 == PutUint64(r.value)
        grown == e.bp + 8 > Len(e.bytes)
        h2 == e.h + r.n
    IN Ok([e EXCEPT !.b = b8,
                    !.bytes = IF grown THEN e.bytes \o b8
                              ELSE [k \in 1..Len(e.bytes) |->
                                      IF k > e.bp /\ k <= e.bp + 8 THEN b8[k - e.bp]
                                      ELSE e.bytes[k]],
                    !.bp = IF grown THEN Len(e.bytes) + 8 ELSE e.bp + 8,
                    !.h = IF h2 = e.t THEN 0 ELSE h2,
                    !.t = IF h2 = e.t THEN 0 ELSE e.t])

\* flush: pack as many of buf[h:t] as fit one word.  Returns the encoder
\* and whether flush returned an error
Encoder_flush(e) ==
  IF e.t = 0 THEN Ok(e) ELSE flushPut(e, Encode(Slice(e.buf, e.h, e.t)))

\* the shift of Write that moves t and h but copies nothing
shiftDownNoCopy(e) ==
  IF e.t >= Len(e.buf) THEN [e EXCEPT !.t = e.t - e.h, !.h = 0] ELSE e

\* the shift of Write that copies and lowers t but leaves h where it was
shiftDownKeepHead(e) ==
  IF e.t >= Len(e.buf)
  THEN [e EXCEPT !.buf = [k \in 1..Len(e.buf) |->
                            IF k <= Len(e.buf) - e.h THEN e.buf[k + e.h] ELSE e.buf[k]],
                 !.t = e.t - e.h]
  ELSE e

\* Write, buf full with space at the front: copy(e.buf, e.buf[e.h:])
shiftDown(e) ==
  IF e.t >= Len(e.buf)
  THEN [e EXCEPT !.buf = [k \in 1..Len(e.buf) |->
                            IF k <= Len(e.buf) - e.h THEN e.buf[k + e.h] ELSE e.buf[k]],
                 !.t = e.t - e.h, !.h = 0]
  ELSE e

\* Write: e.buf[e.t] = v; e.t += 1
storeAt(e, v) == Ok([e EXCEPT !.buf[e.t + 1] = v, !.t = e.t + 1])

\* a Write that drops the error of its flush and stores v all the same
writeAfterAnyway(f, v) == storeAt(shiftDown(f.e), v)

\* Write after its flush f: a failed flush returns its error and v is not
\* stored
writeAfter(f, v) ==
  IF f.err THEN f ELSE storeAt(shiftDown(f.e), v)

\* Write: flush when buf is full, shift the pending values down when it is
\* still full, then store v at t
Encoder_Write(e, v) ==
  writeAfter(IF e.t >= Len(e.buf) THEN Encoder_flush(e) ELSE Ok(e), v)

\* Bytes: flush until t = 0, then return bytes[:bp]; the first error of a
\* flush is returned with nil bytes
RECURSIVE BytesBlock(_, _)
BytesBlock(st, k) ==
  IF k = 0 \/ st.err \/ st.e.t <= 0 THEN st
  ELSE BytesBlock(Encoder_flush(st.e), k - 1)
RECURSIVE BytesLoop(_)
BytesLoop(st) ==
  IF st.err \/ st.e.t <= 0 THEN st
  ELSE BytesLoop(BytesBlock(st, LoopBlock))
bytesOf(st) ==
  IF st.err THEN [e |-> st.e, err |-> TRUE, bytes |-> <<>>]
  ELSE [e |-> st.e, err |-> FALSE, bytes |-> Slice(st.e.bytes, 0, st.e.bp)]
Encoder_Bytes(e) == bytesOf(BytesLoop(Ok(e)))

\* ------------------------------------------------------------------------
\* package simple8b: the streaming Decoder
\* ------------------------------------------------------------------------

NewDecoder(b) == [bytes |-> b, buf |-> [i \in 1..240 |-> W(0)], i |-> 0, n |-> 0]

\* Reset: i and n back to 0, buf left as it is
Decoder_Reset(d, b) == [d EXCEPT !.i = 0, !.n = 0, !.bytes = b]

\* read, r being what Decode returned for the next word
readInto(d, r) ==
  [d EXCEPT !.bytes = Slice(d.bytes, 8, Len(d.bytes)), !.buf = r.dst, !.n = r.n, !.i = 0]

\* read: with 8 bytes left, decode the next word into buf and set i to 0
Decoder_read(d) ==
  IF Len(d.bytes) < 8 THEN d
  ELSE readInto(d, Decode(d.buf, Uint64(Slice(d.bytes, 0, 8))))

\* a Next that takes any bytes left over for a word to come
hasNextAnyBytes(d) == [d |-> d, ok |-> Len(d.bytes) > 0 \/ (d.i >= 0 /\ d.i < d.n)]

\* Next: what it returns for the decoder it leaves
hasNext(d) == [d |-> d, ok |-> Len(d.bytes) >= 8 \/ (d.i >= 0 /\ d.i < d.n)]

\* Next: advance i, read the next word when i has reached n
Decoder_Next(d) ==
  hasNext(IF d.i + 1 >= d.n THEN Decoder_read([d EXCEPT !.i = d.i + 1])
          ELSE [d EXCEPT !.i = d.i + 1])

\* Read: buf[i]; an index outside the array is a run-time panic
Decoder_Read(d) ==
  IF d.i < 0 \/ d.i >= 240 THEN [v |-> W(0), panic |-> TRUE]
  ELSE [v |-> d.buf[d.i + 1], panic |-> FALSE]

\* the caller's loop  for dec.Next() { out = append(out, dec.Read()) }
drainRead(st, nx, rd) ==
  IF ~nx.ok THEN [st EXCEPT !.d = nx.d, !.done = TRUE]
  ELSE IF rd.panic THEN [st EXCEPT !.d = nx.d, !.done = TRUE, !.panic = TRUE]
  ELSE [st EXCEPT !.d = nx.d, !.out = Append(st.out, rd.v)]
drainNext(st, nx) == drainRead(st, nx, Decoder_Read(nx.d))
DrainStep(st) == drainNext(st, Decoder_Next(st.d))
RECURSIVE DrainBlock(_, _)
DrainBlock(st, k) ==
  IF k = 0 \/ st.done THEN st ELSE DrainBlock(DrainStep(st), k - 1)
RECURSIVE DrainLoop(_)
DrainLoop(st) ==
  IF st.done THEN st ELSE DrainLoop(DrainBlock(st, LoopBlock))
Drain(b) == DrainLoop([d |-> NewDecoder(b), out |-> <<>>, done |-> FALSE, panic |-> FALSE])

\* ------------------------------------------------------------------------
\* package timestamp: the encoder.  A timestamp is its UnixNano, an int64
\* ------------------------------------------------------------------------

EncodingPacked == 0
EncodingRLE == 1
EncodingRaw == 2

\* v % divisor == 0 and v / divisor (truncated toward zero) on int64, for a
\* divisor that is a power of ten
RECURSIVE DividesPow10(_, _)
DividesPow10(divisor, v) ==
  IF divisor = One THEN TRUE
  ELSE IF SRem10IsZero(v) THEN DividesPow10(UDiv10(divisor), SDiv10(v))
  ELSE FALSE
RECURSIVE DivPow10(_, _)
DivPow10(v, divisor) ==
  IF divisor = One \/ v = Zero THEN v ELSE DivPow10(SDiv10(v), UDiv10(divisor))

\* a * mod modulo 2^64, for a mod that is a power of ten
RECURSIVE TimesPow10(_, _)
TimesPow10(a, mod) ==
  IF mod = One \/ a = Zero THEN a ELSE TimesPow10(Mul10(a), UDiv10(mod))

\* reduce: for { if v%divisor == 0 { break }; divisor /= 10 }
RECURSIVE reduceDivisor(_, _)
reduceDivisor(divisor, v) ==
  IF DividesPow10(divisor, v) THEN divisor ELSE reduceDivisor(UDiv10(divisor), v)

\* reduce: one turn of the first loop, for the delta v.  With divisor 1
\* the divisor loop breaks at once
reduceStep(st, v) ==
  [min |-> IF SLt(v, st.min) THEN v ELSE st.min,
   max |-> IF SLt(st.max, v) THEN v ELSE st.max,
   divisor |-> IF st.divisor = One THEN One ELSE reduceDivisor(st.divisor, v)]

\* reduce: the first loop, i from len(deltas)-1 down to 1.  raw holds the
\* differences; raw[i + 1] is deltas[i]
RECURSIVE reduceLoop(_, _, _)
reduceLoop(st, raw, i) ==
  IF i <= 0 \/ ~Now(st) THEN st ELSE reduceLoop(reduceStep(st, raw[i + 1]), raw, i - 1)

\* deltas[i] = deltas[i] - deltas[i-1], deltas[0] staying e.ts[0]
rawDeltas(ts) ==
  [k \in 1..Len(ts) |-> IF k = 1 THEN ts[1] ELSE Sub64(ts[k], ts[k - 1])]

\* reduce: the second loop and the result, st being what the first loop left
reduceScale(st, raw) ==
  LET deltas == [k \in 1..Len(raw) |->
                   IF k = 1 THEN raw[1] ELSE DivPow10(Sub64(raw[k], st.min), st.divisor)]
  IN [min |-> st.min, max |-> st.max, divisor |-> st.divisor,
      rle |-> Len(deltas) > 1 /\ \A k \in 3..Len(deltas) : deltas[k - 1] = deltas[k],
      deltas |-> deltas]

\* reduce: min, max, divisor = e.ts[0], 0, 1e12
encoder_reduce(ts) ==
  reduceScale(reduceLoop([min |-> ts[1], max |-> Zero, divisor |-> Pow10W(12)],
                         rawDeltas(ts), Len(ts) - 1),
              rawDeltas(ts))

\* byte(math.Log10(float64(mod))) for mod = 10^0 .. 10^12: the float64 of
\* such a mod is exact and math.Log10 of it is the exponent
Log10(mod) == CHOOSE x \in 0..12 : Pow10W(x) = mod

\* int64(math.Pow10(n)) for n = 0 .. 15
Pow10(n) == Pow10W(n)

\* binary.PutUvarint: seven bits a byte, low bits first, 0x80 on every byte
\* but the last
RECURSIVE PutUvarint(_)
PutUvarint(x) ==
  IF UGt(x, Mask(7)) THEN <<ByteOf(x \cap Mask(7), 7) + 128>> \o PutUvarint(Shr(x, 7))
  ELSE <<ByteOf(x, 7)>>

\* binary.Uvarint: the value and the number of bytes read; n = 0 when buf
\* ends first, n < 0 when the value overflows 64 bits
RECURSIVE UvarintFrom(_, _, _)
UvarintFrom(buf, i, x) ==
  IF i >= Len(buf) THEN [x |-> {}, n |-> 0]
  ELSE IF i = 10 THEN [x |-> {}, n |-> 0 - (i + 1)]
  ELSE IF buf[i + 1] < 128
       THEN IF i = 9 /\ buf[i + 1] > 1 THEN [x |-> {}, n |-> 0 - (i + 1)]
            ELSE [x |-> x \cup Shl(W(buf[i + 1]), 7 * i), n |-> i + 1]
  ELSE UvarintFrom(buf, i + 1, x \cup Shl(W(buf[i + 1] - 128), 7 * i))
Uvarint(buf) == UvarintFrom(buf, 0, {})

\* encodePacked: enc.Write(uint64(v)) for each of dts[1:]; what Write
\* returns is dropped
RECURSIVE writeAll(_, _, _)
writeAll(e, dts, k) ==
  IF k > Len(dts) \/ ~Now(e) THEN e
  ELSE writeAll(Encoder_Write(e, U64(dts[k])).e, dts, k + 1)

\* encodePacked, r being what enc.Bytes() returned
packedFrame(min, mod, first, r) ==
  IF r.err THEN [err |-> TRUE, bytes |-> <<>>]
  ELSE [err |-> FALSE,
        bytes |-> <<EncodingPacked * 16 + Log10(mod)>> \o PutUint64(U64(min))
                    \o PutUint64(U64(first)) \o r.bytes]

encoder_encodePacked(min, mod, dts) ==
  packedFrame(min, mod, dts[1], Encoder_Bytes(writeAll(NewEncoder, dts, 2)))

encoder_encodeRaw(ts) ==
  [err |-> FALSE,
   bytes |-> <<EncodingRaw * 16>> \o WordsToBytes([k \in 1..Len(ts) |-> U64(ts[k])])]

encoder_encodeRLE(first, delta, mod, n) ==
  [err |-> FALSE,
   bytes |-> <<EncodingRLE * 16 + Log10(mod)>> \o PutUint64(U64(first))
               \o PutUvarint(U64(DivPow10(delta, mod))) \o PutUvarint(W(n))]

\* Bytes, r being what reduce returned
bytesAfter(ts, r) ==
  IF r.rle /\ Len(ts) > 60
  THEN encoder_encodeRLE(ts[1], Sub64(ts[2], ts[1]), r.divisor, Len(ts))
  ELSE IF SLt(I64(MaxValue), r.max) THEN encoder_encodeRaw(ts)
  ELSE encoder_encodePacked(r.min, r.divisor, r.deltas)

encoder_Bytes(ts) ==
  IF Len(ts) = 0 THEN [err |-> FALSE, bytes |-> <<>>]
  ELSE bytesAfter(ts, encoder_reduce(ts))

\* ------------------------------------------------------------------------
\* package timestamp: the decoder.  decode leaves d.ts, or panics
\* ------------------------------------------------------------------------

Decoded(ts) == [ts |-> ts, panic |-> FALSE]
Panicked == [ts |-> <<>>, panic |-> TRUE]

\* decodePacked: the prefix sum that scales the deltas back up, from
\* index i (0-based) on; out holds the timestamps before i
RECURSIVE prefixSum(_, _, _, _, _)
prefixSum(out, deltas, mod, min, i) ==
  IF i >= Len(deltas) \/ ~Now(out) THEN out
  ELSE prefixSum(Append(out, Add64(out[i], Add64(TimesPow10(deltas[i + 1], mod), min))),
                 deltas, mod, min, i + 1)

\* decodePacked, dr being what the simple8b Decoder read from b[17:]
unpackedFrame(mod, min, first, dr) ==
  IF dr.panic THEN Panicked
  ELSE Decoded(prefixSum(<<first>>, <<first>> \o [k \in 1..Len(dr.out) |-> I64(dr.out[k])],
                         mod, min, 1))

\* decodePacked: b[1:9] and b[9:17] panic on a frame shorter than 17 bytes
decoder_decodePacked(b) ==
  IF Len(b) < 17 THEN Panicked
  ELSE unpackedFrame(Pow10(b[1] % 16), I64(Uint64(Slice(b, 1, 9))),
                     I64(Uint64(Slice(b, 9, 17))), Drain(Slice(b, 17, Len(b))))

\* decodeRLE: deltas[i] = deltas[i-1] + deltas[i] over count slots, the
\* first being first and the others value
RECURSIVE runOf(_, _, _)
runOf(out, value, count) ==
  IF Len(out) >= count \/ ~Now(out) THEN out
  ELSE runOf(Append(out, Add64(out[Len(out)], value)), value, count)

\* a uint64 as a number of slots; MaxCount stands for every larger count
MaxCount == 1024
SlotsOf(x) == IF UGt(x, W(MaxCount)) THEN MaxCount ELSE Limb(x, 0)

\* a decodeRLE that rebuilds one slot too few
runFrameShort(first, value, c) ==
  IF c.x = {} THEN Panicked
  ELSE Decoded(runOf(<<first>>, value, SlotsOf(c.x) - 1))

\* decodeRLE after the run value, c being what binary.Uvarint returned for
\* the count: make([]int64, count), then deltas[0] = int64(first), which
\* panics when count is 0
runFrame(first, value, c) ==
  IF c.x = {} THEN Panicked
  ELSE Decoded(runOf(<<first>>, value, SlotsOf(c.x)))

\* decodeRLE after the first timestamp, r being what binary.Uvarint
\* returned for the run value and i the index after it; b[i:] panics for
\* an i below 0
runAfter(b, mod, first, r, i) ==
  IF i < 0 THEN Panicked
  ELSE runFrame(first, TimesPow10(I64(r.x), mod), Uvarint(Slice(b, i, Len(b))))

\* decodeRLE: b[i : i+8] panics on a frame shorter than 9 bytes
decoder_decodeRLE(b) ==
  IF Len(b) < 9 THEN Panicked
  ELSE runAfter(b, Pow10(b[1] % 16), I64(Uint64(Slice(b, 1, 9))),
                Uvarint(Slice(b, 9, Len(b))), 9 + Uvarint(Slice(b, 9, Len(b))).n)

decoder_decodeRaw(b) ==
  Decoded([k \in 1..(Len(b) \div 8) |-> I64(Uint64(Slice(b, 8 * (k - 1), 8 * k)))])

\* decode: the encoding type is the 4 high bits of the first byte
decoder_decode(b) ==
  IF Len(b) = 0 THEN Decoded(<<>>)
  ELSE IF b[1] \div 16 = EncodingRaw THEN decoder_decodeRaw(Slice(b, 1, Len(b)))
  ELSE IF b[1] \div 16 = EncodingRLE THEN decoder_decodeRLE(b)
  ELSE decoder_decodePacked(b)

\* Next and Read: Next moves the head of d.ts to d.v
decoder_Next(d) ==
  IF Len(d.ts) = 0 THEN [d |-> d, ok |-> FALSE]
  ELSE [d |-> [v |-> d.ts[1], ts |-> Tail(d.ts)], ok |-> TRUE]
decoder_Read(d) == d.v

\* the caller's loop  for dec.Next() { out = append(out, dec.Read()) }
RECURSIVE readAll(_, _)
readAll(d, out) ==
  IF ~decoder_Next(d).ok \/ ~Now(out) THEN out
  ELSE readAll(decoder_Next(d).d, Append(out, decoder_Read(decoder_Next(d).d)))

\* ------------------------------------------------------------------------
\* package delta: Delta, InverseDelta, reference10, FORDelta10 and its
\* inverse, on sequences of int64
\* ------------------------------------------------------------------------

\* Delta(dst, src) with len(dst) >= len(src): dst[0] = src[0] and
\* dst[i] = src[i] - src[i-1], i from len(src)-1 down to 1
Delta(dst, src) ==
  IF Len(src) = 0 \/ Len(dst) = 0 THEN dst
  ELSE [k \in 1..Len(dst) |->
          IF k = 1 THEN src[1]
          ELSE IF k <= Len(src) THEN Sub64(src[k], src[k - 1]) ELSE dst[k]]

\* InverseDelta: dst[i] = dst[i-1] + src[i] from index i (0-based) on,
\* out holding dst[0..i-1]
RECURSIVE inverseDeltaLoop(_, _, _)
inverseDeltaLoop(out, src, i) ==
  IF i >= Len(src) \/ ~Now(out) THEN out
  ELSE inverseDeltaLoop(Append(out, Add64(out[i], src[i + 1])), src, i + 1)

\* InverseDelta(dst, src) with len(dst) >= len(src)
InverseDelta(dst, src) ==
  IF Len(src) = 0 \/ Len(dst) = 0 THEN dst
  ELSE inverseDeltaLoop(<<src[1]>>, src, 1) \o Slice(dst, Len(src), Len(dst))

\* a divisor loop that gives up after one division by 10
reference10DivisorOnce(divisor, v) ==
  IF divisor = One THEN One
  ELSE IF DividesPow10(divisor, v) THEN divisor
  ELSE UDiv10(divisor)

\* reference10: for { if v%divisor == 0 { break }; divisor /= 10 }
RECURSIVE reference10Divisor(_, _)
reference10Divisor(divisor, v) ==
  IF divisor = One THEN One
  ELSE IF DividesPow10(divisor, v) THEN divisor
  ELSE reference10Divisor(UDiv10(divisor), v)

\* reference10: one turn of the loop for v = src[i], i > 0
reference10Step(st, v) ==
  [min |-> IF SLt(v, st.min) THEN v ELSE st.min,
   max |-> IF SLt(st.max, v) THEN v ELSE st.max,
   divisor |-> reference10Divisor(st.divisor, v)]

\* reference10: the loop from index i (0-based) on, index 0 being skipped
RECURSIVE reference10Loop(_, _, _)
reference10Loop(st, src, i) ==
  IF i >= Len(src) \/ ~Now(st) THEN st
  ELSE reference10Loop(reference10Step(st, src[i + 1]), src, i + 1)

\* reference10(src) for a src of length >= 1: min = src[0], max = 0,
\* divisor = int64(1e12)
reference10(src) ==
  reference10Loop([min |-> src[1], max |-> Zero, divisor |-> Pow10W(12)], src, 1)

\* FORDelta10 after reference10: dst[i] = (dst[i] - min) / mod and rle
forScale(ref, dst) ==
  LET scaled == [k \in 1..Len(dst) |->
                   IF k = 1 THEN dst[1] ELSE DivPow10(Sub64(dst[k], ref.min), ref.divisor)]
  IN [min |-> ref.min, max |-> ref.max, mod |-> ref.divisor,
      rle |-> Len(scaled) > 1 /\ \A k \in 3..Len(scaled) : scaled[k - 1] = scaled[k],
      dst |-> scaled]

\* FORDelta10 after Delta(dst, src)
forAfterDelta(dst) == forScale(reference10(dst), dst)

FORDelta10(src) ==
  IF Len(src) = 0
  THEN [min |-> Zero, max |-> Zero, mod |-> Zero, rle |-> FALSE, dst |-> src]
  ELSE forAfterDelta(Delta([k \in 1..Len(src) |-> Zero], src))

\* InverseFORDelta10, for a mod that is a power of ten: src[i] is scaled up
\* in place, then InverseDelta into a new dst.  src is the caller's slice
\* after the call
inverseForScale(min, mod, src) ==
  [k \in 1..Len(src) |->
     IF k = 1 THEN src[1] ELSE Add64(TimesPow10(src[k], mod), min)]

inverseAfterScale(src) ==
  [dst |-> InverseDelta([k \in 1..Len(src) |-> Zero], src), src |-> src]

InverseFORDelta10(min, mod, src) ==
  IF Len(src) = 0 THEN [dst |-> src, src |-> src]
  ELSE inverseAfterScale(inverseForScale(min, mod, src))

\* ------------------------------------------------------------------------
\* The package-level functions applied to bounded inputs
\* ------------------------------------------------------------------------

Rep(v, k) == [i \in 1..k |-> v]
None == <<>>

\* inputs: a run of one value followed by a short tail.  Runs end at the
\* lengths next to a selector's count, values are the largest of each width
MaxRun == 241
MaxTail == 1
TooBig == Shl(W(1), 60)
RunVals == {W(0), W(2), TooBig} \cup {Mask(SelBit[s]) : s \in 3..16}
TailVals == {W(1), W(2), TooBig}
RunLens == {k \in 0..MaxRun : k = 0 \/ \E s \in 1..16 : k - SelN[s] \in {-1, 0, 1}}
Tails == UNION {[1..m -> TailVals] : m \in 0..MaxTail}
BulkInputs == {Rep(a, k) \o tl : a \in RunVals, k \in RunLens, tl \in Tails}

InRange(s) == \A i \in 1..Len(s) : ~UGt(s[i], MaxValue)

\* the timestamp codec is not in use
IdleTs ==
  /\ tsEncoder = None /\ tsRet = [op |-> "idle", err |-> FALSE, bytes |-> <<>>]
  /\ tsRead = None /\ tsPc = "idle" /\ tsDevs = 0

\* package delta is not in use
IdleDelta ==
  forIn = None /\ forOut = None /\ forBack = None /\ redOut = None /\ forPc = "idle"
\* the package-level functions and the streaming Encoder are not in use
IdleBulk ==
  /\ bulkIn = None /\ bulkPc = "idle"
  /\ encOne = None /\ decOne = None /\ encAll = None /\ counted = None /\ decAll = None
IdleStream ==
  /\ encoder = None /\ ret = [op |-> "idle", err |-> FALSE, bytes |-> <<>>]
  /\ written = <<>> /\ sawBig = FALSE /\ fresh = TRUE
  /\ nBytes = 0 /\ nWrites = 0 /\ ops = 0 /\ onRun = TRUE

\* no decoder is in use
IdleDec ==
  /\ decIn = None /\ s8 = None /\ td = None
  /\ decRet = [op |-> "idle", ok |-> FALSE, panic |-> FALSE]
  /\ nTrue = 0 /\ sawFalse = FALSE /\ trueAtFalse = 0 /\ nAfter = 0 /\ nResets = 0
  /\ decPc = "idle"

InitBulk ==
  /\ IdleDec
  /\ IdleDelta
  /\ IdleTs
  /\ bulkIn \in BulkInputs
  /\ bulkPc = "start"
  /\ encOne = None /\ decOne = None /\ encAll = None /\ counted = None /\ decAll = None
  /\ encoder = None /\ ret = [op |-> "idle", err |-> FALSE, bytes |-> <<>>] /\ written = <<>> /\ sawBig = FALSE /\ fresh = TRUE
  /\ nBytes = 0 /\ nWrites = 0 /\ ops = 0 /\ onRun = TRUE

CallEncode ==
  /\ bulkPc = "start"
  /\ encOne' = Encode(bulkIn)
  /\ bulkPc' = "one"
  /\ UNCHANGED <<bulkIn, decOne, encAll, counted, decAll>>
  /\ UNCHANGED <<streamVars, tsVars, deltaVars, decVars>>

CallDecode ==
  /\ bulkPc = "one" /\ ~encOne.err
  /\ decOne' = Decode(Rep(W(0), 240), encOne.value)
  /\ bulkPc' = "oneDecoded"
  /\ UNCHANGED <<bulkIn, encOne, encAll, counted, decAll>>
  /\ UNCHANGED <<streamVars, tsVars, deltaVars, decVars>>

CallEncodeAll ==
  /\ bulkPc = "start"
  /\ encAll' = EncodeAll(bulkIn)
  /\ bulkPc' = "all"
  /\ UNCHANGED <<bulkIn, encOne, decOne, counted, decAll>>
  /\ UNCHANGED <<streamVars, tsVars, deltaVars, decVars>>

CallCountBytes ==
  /\ bulkPc = "all" /\ ~encAll.err
  /\ counted' = CountBytes(WordsToBytes(encAll.words))
  /\ bulkPc' = "counted"
  /\ UNCHANGED <<bulkIn, encOne, decOne, encAll, decAll>>
  /\ UNCHANGED <<streamVars, tsVars, deltaVars, decVars>>

\* DecodeAll into a fresh destination of len(xs) slots
CallDecodeAll ==
  /\ bulkPc = "counted"
  /\ decAll' \in DecodeAllOutcomes(Rep(W(0), Len(bulkIn)), encAll.words)
  /\ bulkPc' = "allDecoded"
  /\ UNCHANGED <<bulkIn, encOne, decOne, encAll, counted>>
  /\ UNCHANGED <<streamVars, tsVars, deltaVars, decVars>>

NextBulk == CallEncode \/ CallDecode \/ CallEncodeAll \/ CallCountBytes \/ CallDecodeAll

SpecBulk == InitBulk /\ [][NextBulk]_vars

\* ------------------------------------------------------------------------
\* The streaming Encoder driven by Write, Bytes and Reset
\* ------------------------------------------------------------------------

\* the calls: an opening run of up to MaxRun writes of one value, left at a
\* length of StreamLens, then up to MaxOps further calls of any kind
MaxOps == 3
StreamLens == {0, 1, 2, 60, 120} \cup ((MaxRun - 2)..MaxRun)
SpineVals == {W(1), W(2), Mask(8), TooBig}
DevVals == {W(2), MaxValue, TooBig}

InitStream ==
  /\ IdleDec
  /\ IdleDelta
  /\ IdleTs
  /\ encoder = NewEncoder
  /\ ret = [op |-> "NewEncoder", err |-> FALSE, bytes |-> <<>>]
  /\ written = <<>> /\ sawBig = FALSE /\ fresh = TRUE
  /\ nBytes = 0 /\ nWrites = 0 /\ ops = 0 /\ onRun = TRUE
  /\ bulkIn = None /\ bulkPc = "idle"
  /\ encOne = None /\ decOne = None /\ encAll = None /\ counted = None /\ decAll = None

\* a call that continues the opening run
Continues(v) ==
  IF onRun /\ nWrites < MaxRun
  THEN (IF nWrites = 0 THEN v \in SpineVals ELSE v = written[1])
  ELSE FALSE
\* a call that ends it, or follows its end
MayLeave == ops < MaxOps /\ (onRun => nWrites \in StreamLens)

Write(v) ==
  /\ IF Continues(v) THEN TRUE ELSE MayLeave
  /\ \E r \in {Encoder_Write(encoder, v)} :
        /\ encoder' = r.e
        /\ ret' = [op |-> "Write", err |-> r.err, bytes |-> <<>>]
        /\ written' = IF r.err THEN written ELSE Append(written, v)
  /\ sawBig' = (sawBig \/ UGt(v, MaxValue))
  /\ nWrites' = nWrites + 1
  /\ onRun' = Continues(v)
  /\ ops' = IF Continues(v) THEN ops ELSE ops + 1
  /\ UNCHANGED <<fresh, nBytes>>
  /\ UNCHANGED <<bulkVars, tsVars, deltaVars, decVars>>

Bytes ==
  /\ MayLeave
  /\ \E r \in {Encoder_Bytes(encoder)} :
        /\ encoder' = r.e
        /\ ret' = [op |-> "Bytes", err |-> r.err, bytes |-> r.bytes]
  /\ nBytes' = nBytes + 1
  /\ onRun' = FALSE /\ ops' = ops + 1
  /\ UNCHANGED <<written, sawBig, fresh, nWrites>>
  /\ UNCHANGED <<bulkVars, tsVars, deltaVars, decVars>>

Reset ==
  /\ MayLeave
  /\ encoder' = Encoder_Reset(encoder)
  /\ ret' = [op |-> "Reset", err |-> FALSE, bytes |-> <<>>]
  /\ written' = <<>> /\ sawBig' = FALSE /\ fresh' = FALSE /\ nBytes' = 0
  /\ onRun' = FALSE /\ ops' = ops + 1
  /\ UNCHANGED nWrites
  /\ UNCHANGED <<bulkVars, tsVars, deltaVars, decVars>>

NextStream ==
  \/ \E v \in SpineVals \cup DevVals : Write(v)
  \/ Bytes
  \/ Reset

SpecStream == InitStream /\ [][NextStream]_vars

\* ------------------------------------------------------------------------
\* The timestamp encoder driven by Write and Bytes, and the decoder read
\* ------------------------------------------------------------------------

\* NewEncoder: no timestamp yet.  Write appends t.UnixNano()
timestamp_NewEncoder == <<>>
encoder_Write(ts, t) == Append(ts, t)

\* NewDecoder: decode(b) fills d.ts, or panics
timestamp_NewDecoder(b) ==
  [v |-> Zero, ts |-> decoder_decode(b).ts, panic |-> decoder_decode(b).panic]

\* NewDecoder followed by the caller's Next/Read loop
readBack(d) == [panic |-> d.panic, ts |-> IF d.panic THEN <<>> ELSE readAll(d, <<>>)]

\* the calls: up to MaxTs writes, each a step after the one before.  The
\* second write sets the step; up to MaxTsDevs later writes, at a length
\* of TsMarks, take another one.  Bytes is called at a length of TsMarks
MaxTs == 101
MaxTsDevs == 1
T0 == MulPow10(Nat64(1442369134), 9)
Big == I64(TooBig)
TsFirsts == {T0, Nat64(1), Neg64(Nat64(5))}
TsSteps == {Pow10W(9), Nat64(10), Zero, Neg64(Pow10W(9)), Big, Neg64(Big)}
TsDevSteps == {Nat64(10), Big}
TsMarks == (0..3) \cup (60..62) \cup {MaxTs}

InitTs ==
  /\ IdleDec
  /\ IdleDelta
  /\ tsEncoder = timestamp_NewEncoder
  /\ tsRet = [op |-> "NewEncoder", err |-> FALSE, bytes |-> <<>>]
  /\ tsRead = None /\ tsPc = "write" /\ tsDevs = 0
  /\ encoder = None /\ ret = [op |-> "idle", err |-> FALSE, bytes |-> <<>>]
  /\ written = <<>> /\ sawBig = FALSE /\ fresh = TRUE
  /\ nBytes = 0 /\ nWrites = 0 /\ ops = 0 /\ onRun = TRUE
  /\ bulkIn = None /\ bulkPc = "idle"
  /\ encOne = None /\ decOne = None /\ encAll = None /\ counted = None /\ decAll = None

\* the step of the last write, and the step the second write set
LastStep(ts, t) == Sub64(t, ts[Len(ts)])
FirstStep(ts) == Sub64(ts[2], ts[1])

\* t keeps the step of the second write
OnStep(t) ==
  IF Len(tsEncoder) = 0 THEN t \in TsFirsts
  ELSE IF Len(tsEncoder) = 1 THEN LastStep(tsEncoder, t) \in TsSteps
  ELSE LastStep(tsEncoder, t) = FirstStep(tsEncoder)
\* t takes another step
OffStep(t) ==
  IF Len(tsEncoder) < 2 THEN FALSE
  ELSE /\ tsDevs < MaxTsDevs /\ Len(tsEncoder) \in TsMarks
       /\ LastStep(tsEncoder, t) \in TsDevSteps
       /\ LastStep(tsEncoder, t) # FirstStep(tsEncoder)

\* the timestamps a write may carry
TsNext ==
  IF Len(tsEncoder) = 0 THEN TsFirsts
  ELSE {Add64(tsEncoder[Len(tsEncoder)], d) : d \in TsSteps}

TsWrite(t) ==
  /\ tsPc = "write" /\ Len(tsEncoder) < MaxTs
  /\ IF OnStep(t) THEN TRUE ELSE OffStep(t)
  /\ tsEncoder' = encoder_Write(tsEncoder, t)
  /\ tsRet' = [op |-> "Write", err |-> FALSE, bytes |-> <<>>]
  /\ tsDevs' = IF OnStep(t) THEN tsDevs ELSE tsDevs + 1
  /\ UNCHANGED <<tsRead, tsPc>>
  /\ UNCHANGED <<bulkVars, streamVars, deltaVars, decVars>>

TsBytes ==
  /\ tsPc = "write" /\ Len(tsEncoder) \in TsMarks
  /\ \E r \in {encoder_Bytes(tsEncoder)} :
        tsRet' = [op |-> "Bytes", err |-> r.err, bytes |-> r.bytes]
  /\ tsPc' = "encoded"
  /\ UNCHANGED <<tsEncoder, tsRead, tsDevs>>
  /\ UNCHANGED <<bulkVars, streamVars, deltaVars, decVars>>

TsDecode ==
  /\ tsPc = "encoded" /\ ~tsRet.err
  /\ tsRead' = readBack(timestamp_NewDecoder(tsRet.bytes))
  /\ tsPc' = "decoded"
  /\ UNCHANGED <<tsEncoder, tsRet, tsDevs>>
  /\ UNCHANGED <<bulkVars, streamVars, deltaVars, decVars>>

NextTs ==
  \/ \E t \in TsNext : TsWrite(t)
  \/ TsBytes
  \/ TsDecode

SpecTs == InitTs /\ [][NextTs]_vars

\* ------------------------------------------------------------------------
\* FORDelta10, InverseFORDelta10 and reduce applied to bounded inputs
\* ------------------------------------------------------------------------

\* inputs: up to MaxFor values of ForVals
MaxFor == 3
ForVals ==
  {Zero, Nat64(1), Nat64(11), Nat64(21), Neg64(Nat64(5)), Nat64(100),
   Pow10W(12), T0, Add64(T0, Pow10W(9)), Add64(T0, Nat64(3000))}
ForInputs == UNION {[1..m -> ForVals] : m \in 0..MaxFor}

InitDelta ==
  /\ forIn \in ForInputs
  /\ forOut = None /\ forBack = None /\ redOut = None /\ forPc = "start"
  /\ IdleBulk /\ IdleStream /\ IdleTs /\ IdleDec

CallFORDelta10 ==
  /\ forPc = "start"
  /\ forOut' = FORDelta10(forIn)
  /\ forPc' = "for"
  /\ UNCHANGED <<forIn, forBack, redOut>>
  /\ UNCHANGED <<bulkVars, streamVars, tsVars, decVars>>

\* InverseFORDelta10(min, mod, deltas) on what FORDelta10 returned
CallInverseFORDelta10 ==
  /\ forPc = "for"
  /\ forBack' = InverseFORDelta10(forOut.min, forOut.mod, forOut.dst)
  /\ forPc' = "back"
  /\ UNCHANGED <<forIn, forOut, redOut>>
  /\ UNCHANGED <<bulkVars, streamVars, tsVars, decVars>>

\* reduce on a timestamp encoder whose ts is forIn; Bytes calls it for a
\* non-empty ts only
CallReduce ==
  /\ forPc = "start" /\ Len(forIn) > 0
  /\ redOut' = encoder_reduce(forIn)
  /\ forPc' = "reduced"
  /\ UNCHANGED <<forIn, forOut, forBack>>
  /\ UNCHANGED <<bulkVars, streamVars, tsVars, decVars>>

NextDelta == CallFORDelta10 \/ CallInverseFORDelta10 \/ CallReduce

SpecDelta == InitDelta /\ [][NextDelta]_vars

\* ------------------------------------------------------------------------
\* The two decoders driven call by call: NewDecoder, Next, Read, Reset
\* ------------------------------------------------------------------------

\* n timestamps from first on, d apart
RECURSIVE TsRun(_, _, _)
TsRun(out, d, n) ==
  IF Len(out) >= n \/ ~Now(out) THEN out
  ELSE TsRun(Append(out, Add64(out[Len(out)], d)), d, n)

\* inputs of the simple8b Decoder: the words of EncodeAll(xs), as bytes,
\* followed by fewer than 8 further bytes
S8Values ==
  {Rep(W(1), k) : k \in {0, 1, 120, 240, 241}}
     \cup {Rep(W(7), 21), <<W(1), W(2), MaxValue>>}
Junk == {<<>>, <<1, 2, 3>>, <<255, 255, 255, 255, 255, 255, 255>>}
S8Inputs ==
  {[kind |-> "s8", bytes |-> WordsToBytes(EncodeAll(xs).words) \o j, count |-> Len(xs)] :
     xs \in S8Values, j \in Junk}

\* inputs of the timestamp decoder: the frames Bytes() returns, and byte
\* sequences that are no frame (count -1)
TdValues ==
  {<<>>, <<T0>>, TsRun(<<T0>>, Pow10W(9), 3), TsRun(<<T0>>, Pow10W(9), 61),
   TsRun(<<Nat64(1)>>, Nat64(10), 3), <<T0, Add64(T0, Big), Add64(T0, Big)>>}
Malformed ==
  {<<0>>, <<16>>, <<48>>, <<32, 1, 2, 3>>,
   <<0>> \o PutUint64(W(0)) \o Slice(PutUint64(W(1)), 0, 7),
   <<16>> \o PutUint64(W(1)),
   <<16>> \o PutUint64(W(1)) \o <<1, 0>>}
TdInputs ==
  {[kind |-> "td", bytes |-> encoder_Bytes(ts).bytes, count |-> Len(ts)] : ts \in TdValues}
     \cup {[kind |-> "td", bytes |-> b, count |-> -1] : b \in Malformed}

\* the calls made after Next first returned false, and the calls of Reset
MaxAfter == 3
MaxResets == 1

InitDec ==
  /\ decIn \in S8Inputs \cup TdInputs
  /\ s8 = None /\ td = None
  /\ decRet = [op |-> "none", ok |-> FALSE, panic |-> FALSE]
  /\ nTrue = 0 /\ sawFalse = FALSE /\ trueAtFalse = 0 /\ nAfter = 0 /\ nResets = 0
  /\ decPc = "start"
  /\ IdleBulk /\ IdleStream /\ IdleTs /\ IdleDelta

\* what a call of Next that returned ok does to the history
Counted(ok) ==
  /\ nTrue' = IF ok THEN nTrue + 1 ELSE nTrue
  /\ sawFalse' = (sawFalse \/ ~ok)
  /\ trueAtFalse' = IF ~sawFalse /\ ~ok THEN nTrue ELSE trueAtFalse
  /\ nAfter' = IF sawFalse THEN nAfter + 1 ELSE nAfter

S8New ==
  /\ decPc = "start" /\ decIn.kind = "s8"
  /\ s8' = NewDecoder(decIn.bytes)
  /\ decRet' = [op |-> "NewDecoder", ok |-> FALSE, panic |-> FALSE]
  /\ decPc' = "s8"
  /\ UNCHANGED <<decIn, td, nTrue, sawFalse, trueAtFalse, nAfter, nResets>>
  /\ UNCHANGED <<bulkVars, streamVars, tsVars, deltaVars>>

S8Next ==
  /\ decPc = "s8" /\ nAfter < MaxAfter
  /\ \E r \in {Decoder_Next(s8)} :
        /\ s8' = r.d
        /\ decRet' = [op |-> "Next", ok |-> r.ok, panic |-> FALSE]
        /\ Counted(r.ok)
  /\ UNCHANGED <<decIn, td, nResets, decPc>>
  /\ UNCHANGED <<bulkVars, streamVars, tsVars, deltaVars>>

S8Read ==
  /\ decPc = "s8" /\ decRet.op # "Read"
  /\ \E r \in {Decoder_Read(s8)} :
        /\ decRet' = [op |-> "Read", ok |-> FALSE, panic |-> r.panic]
        /\ decPc' = IF r.panic THEN "panicked" ELSE "s8"
  /\ UNCHANGED <<decIn, s8, td, nTrue, sawFalse, trueAtFalse, nAfter, nResets>>
  /\ UNCHANGED <<bulkVars, streamVars, tsVars, deltaVars>>

\* Reset with the same bytes: the stream starts again
S8Reset ==
  /\ decPc = "s8" /\ nResets < MaxResets /\ sawFalse
  /\ s8' = Decoder_Reset(s8, decIn.bytes)
  /\ decRet' = [op |-> "Reset", ok |-> FALSE, panic |-> FALSE]
  /\ nTrue' = 0 /\ sawFalse' = FALSE /\ trueAtFalse' = 0 /\ nAfter' = 0
  /\ nResets' = nResets + 1
  /\ UNCHANGED <<decIn, td, decPc>>
  /\ UNCHANGED <<bulkVars, streamVars, tsVars, deltaVars>>

\* NewDecoder of package timestamp: decode runs in it, and may panic
TdNew ==
  /\ decPc = "start" /\ decIn.kind = "td"
  /\ \E r \in {timestamp_NewDecoder(decIn.bytes)} :
        /\ td' = [v |-> r.v, ts |-> r.ts]
        /\ decRet' = [op |-> "NewDecoder", ok |-> FALSE, panic |-> r.panic]
        /\ decPc' = IF r.panic THEN "panicked" ELSE "td"
  /\ UNCHANGED <<decIn, s8, nTrue, sawFalse, trueAtFalse, nAfter, nResets>>
  /\ UNCHANGED <<bulkVars, streamVars, tsVars, deltaVars>>

TdNext ==
  /\ decPc = "td" /\ nAfter < MaxAfter
  /\ \E r \in {decoder_Next(td)} :
        /\ td' = r.d
        /\ decRet' = [op |-> "Next", ok |-> r.ok, panic |-> FALSE]
        /\ Counted(r.ok)
  /\ UNCHANGED <<decIn, s8, nResets, decPc>>
  /\ UNCHANGED <<bulkVars, streamVars, tsVars, deltaVars>>

TdRead ==
  /\ decPc = "td" /\ decRet.op # "Read"
  /\ decRet' = [op |-> "Read", ok |-> FALSE, panic |-> FALSE]
  /\ UNCHANGED <<decIn, s8, td, nTrue, sawFalse, trueAtFalse, nAfter, nResets, decPc>>
  /\ UNCHANGED <<bulkVars, streamVars, tsVars, deltaVars>>

NextDec == S8New \/ S8Next \/ S8Read \/ S8Reset \/ TdNew \/ TdNext \/ TdRead

SpecDec == InitDec /\ [][NextDec]_vars

\* ------------------------------------------------------------------------
\* The streaming Encoder reused after Reset
\* ------------------------------------------------------------------------

\* the calls: a run of up to MaxRun writes of one value of RsVals, stopped
\* at a length of RsLens, then at most one write of a value of RsTails, and
\* up to MaxBytesCalls calls of Bytes; Reset, once, and then the same again.
\* Here written holds the value of every call of Write since NewEncoder or
\* Reset, and nWrites their number
MaxBytesCalls == 2
RsVals == {W(1), Mask(8), TooBig}
RsTails == {W(2), TooBig}
RsLens == {0, 1, MaxRun - 1, MaxRun}

\* Write(v) within the run
RsRun(v) ==
  /\ onRun /\ nWrites < MaxRun
  /\ IF nWrites = 0 THEN TRUE ELSE v = written[1]
  /\ \E r \in {Encoder_Write(encoder, v)} :
        /\ encoder' = r.e
        /\ ret' = [op |-> "Write", err |-> r.err, bytes |-> <<>>]
  /\ written' = Append(written, v)
  /\ sawBig' = (sawBig \/ UGt(v, MaxValue))
  /\ nWrites' = nWrites + 1
  /\ UNCHANGED <<fresh, nBytes, ops, onRun>>
  /\ UNCHANGED <<bulkVars, tsVars, deltaVars, decVars>>

\* Write(v) that ends the run
RsTail(v) ==
  /\ onRun /\ nWrites \in RsLens
  /\ \E r \in {Encoder_Write(encoder, v)} :
        /\ encoder' = r.e
        /\ ret' = [op |-> "Write", err |-> r.err, bytes |-> <<>>]
  /\ written' = Append(written, v)
  /\ sawBig' = (sawBig \/ UGt(v, MaxValue))
  /\ nWrites' = nWrites + 1
  /\ onRun' = FALSE
  /\ UNCHANGED <<fresh, nBytes, ops>>
  /\ UNCHANGED <<bulkVars, tsVars, deltaVars, decVars>>

\* Bytes(): it ends a run that has begun
RsBytes ==
  /\ nBytes < MaxBytesCalls
  /\ IF onRun THEN nWrites \in RsLens ELSE TRUE
  /\ \E r \in {Encoder_Bytes(encoder)} :
        /\ encoder' = r.e
        /\ ret' = [op |-> "Bytes", err |-> r.err, bytes |-> r.bytes]
  /\ nBytes' = nBytes + 1
  /\ onRun' = (onRun /\ nWrites = 0)
  /\ UNCHANGED <<written, sawBig, fresh, nWrites, ops>>
  /\ UNCHANGED <<bulkVars, tsVars, deltaVars, decVars>>

\* Reset(), once: the calls start again on the same Encoder
RsReset ==
  /\ fresh
  /\ IF onRun THEN nWrites \in RsLens ELSE TRUE
  /\ encoder' = Encoder_Reset(encoder)
  /\ ret' = [op |-> "Reset", err |-> FALSE, bytes |-> <<>>]
  /\ written' = <<>> /\ sawBig' = FALSE /\ fresh' = FALSE
  /\ nBytes' = 0 /\ nWrites' = 0 /\ onRun' = TRUE
  /\ UNCHANGED ops
  /\ UNCHANGED <<bulkVars, tsVars, deltaVars, decVars>>

NextReset ==
  \/ \E v \in RsVals : RsRun(v)
  \/ \E v \in RsTails : RsTail(v)
  \/ RsBytes
  \/ RsReset

SpecReset == InitStream /\ [][NextReset]_vars

\* ------------------------------------------------------------------------
\* Claims about the package-level functions (checked under SpecBulk)
\* ------------------------------------------------------------------------

\* C1: bulk round trip.  For every xs with every value <= 2^60-1,
\* EncodeAll(xs) returns no error, and DecodeAll of the returned words into
\* a destination of len(xs) slots returns len(xs) and leaves the
\* destination equal to xs, element by element.
C1_BulkRoundTrip ==
  /\ (bulkPc = "all" /\ InRange(bulkIn)) => ~encAll.err
  /\ (bulkPc = "allDecoded" /\ InRange(bulkIn)) =>
       /\ decAll.outcome = "returned"
       /\ ~decAll.err
       /\ decAll.n = Len(bulkIn)
       /\ decAll.dst = bulkIn

\* C5: count agreement.  For every xs with every value <= 2^60-1,
\* CountBytes of the big-endian bytes of EncodeAll(xs) returns len(xs) and
\* no error: the counts of the emitted words add up to the inputs consumed.
C5_CountAgreement ==
  (bulkPc = "counted" /\ InRange(bulkIn)) =>
     /\ ~counted.err
     /\ counted.n = Len(bulkIn)

\* C5 witness: an input of at least 240 values was packed into several
\* words and counted
C5_Witness ==
  /\ bulkPc = "counted" /\ InRange(bulkIn)
  /\ Len(bulkIn) >= 240 /\ Len(encAll.words) > 1
  /\ counted.n = Len(bulkIn)

\* the selector rule as the claim states it: row s (1..16) accepts src
Accepts(s, src) ==
  /\ Len(src) >= SelN[s]
  /\ IF SelBit[s] = 0
       THEN \A i \in 1..Len(src) : src[i] = W(1)
       ELSE \A i \in 1..SelN[s] : ~UGt(src[i], Mask(SelBit[s]))
FirstAccepting(src) ==
  CHOOSE s \in 1..16 : Accepts(s, src) /\ \A r \in 1..(s - 1) : ~Accepts(r, src)
\* word holds selector s - 1 in its top four bits and, for a width > 0,
\* value i of src in the field at bit offset i * width
IsWordOf(word, s, src) ==
  /\ SelOf(word) = s - 1
  /\ IF SelBit[s] = 0 THEN word \cap Mask(60) = {}
     ELSE \A i \in 0..(SelN[s] - 1) :
            Shr(word, i * SelBit[s]) \cap Mask(SelBit[s]) = src[i + 1]

FixedPointVal(s) == IF SelBit[s] = 0 THEN W(1) ELSE Mask(SelBit[s])
FixedPointIn(s) == Rep(FixedPointVal(s), SelN[s])

\* C8: selector fixed points.  For each of the sixteen rows, Encode of n
\* copies of 2^bits - 1 (1 when bits = 0) returns one word with the row's
\* selector in its top four bits and n values consumed, and Decode of that
\* word returns n with the first n slots equal to the value.
C8_SelectorFixedPoints ==
  \A s \in 1..16 :
    bulkIn = FixedPointIn(s) =>
      /\ bulkPc \in {"one", "oneDecoded"} =>
           ~encOne.err /\ encOne.n = SelN[s] /\ SelOf(encOne.value) = s - 1
      /\ bulkPc = "oneDecoded" =>
           /\ ~decOne.err /\ decOne.n = SelN[s]
           /\ \A i \in 1..SelN[s] : decOne.dst[i] = FixedPointVal(s)

\* C8 witness: the row of 7 values of 8 bits went through Encode and Decode
C8_Witness ==
  /\ bulkPc = "oneDecoded"
  /\ bulkIn = FixedPointIn(10)
  /\ decOne.n = 7 /\ decOne.dst[7] = W(255)

\* ------------------------------------------------------------------------
\* Claims about the streaming Encoder and Decoder (checked under SpecStream)
\* ------------------------------------------------------------------------

\* C2: streaming round trip under any interleaving.  On a fresh Encoder,
\* whatever Bytes calls came between the writes of values <= 2^60-1, the
\* bytes a Bytes call returns, read with Next and Read until Next returns
\* false, give exactly the values written so far, in write order.
C2_StreamRoundTrip ==
  (ret.op = "Bytes" /\ fresh /\ ~sawBig) =>
     /\ ~ret.err
     /\ ~Drain(ret.bytes).panic
     /\ Drain(ret.bytes).out = written

\* C2 witness: a second Bytes call, after more than 240 writes with a Bytes
\* call between them, returned bytes that decode to the values written
C2_Witness ==
  /\ ret.op = "Bytes" /\ fresh /\ ~sawBig /\ ~ret.err
  /\ nBytes = 2 /\ Len(written) > 240 /\ written[Len(written)] # written[1]
  /\ Drain(ret.bytes).out = written

\* C4: streaming equivalence.  Writing xs (every value <= 2^60-1) to a
\* fresh Encoder and calling Bytes once returns the bytes of the words of
\* EncodeAll(xs), serialised big-endian in order.
C4_StreamingEquivalence ==
  (ret.op = "Bytes" /\ fresh /\ nBytes = 1 /\ ~sawBig) =>
     /\ ~ret.err
     /\ ret.bytes = WordsToBytes(EncodeAll(written).words)

\* C6: lazy out-of-range rejection.  Once a Write since NewEncoder or the
\* last Reset was given a value above 2^60-1, every Bytes call returns an
\* error and no bytes, until Reset is called.
C6_LazyRejection ==
  (ret.op = "Bytes" /\ sawBig) => (ret.err /\ ret.bytes = <<>>)

\* C6 witness: a value above 2^60-1 and then another value were written
\* and Bytes returned the error
C6_Witness ==
  /\ ret.op = "Bytes" /\ sawBig /\ ret.err
  /\ Len(written) >= 2 /\ UGt(written[1], MaxValue)

\* ------------------------------------------------------------------------
\* Claims about the timestamp codec (checked under SpecTs)
\* ------------------------------------------------------------------------

\* the timestamps written, their count, and the frame Bytes returned
Kind == tsRet.bytes[1] \div 16
RawDelta(i) == Sub64(tsEncoder[i], tsEncoder[i - 1])
Uniform == \A i \in 2..Len(tsEncoder) : RawDelta(i) = RawDelta(2)

\* C3: timestamp round trip.  For every non-empty sequence of timestamps
\* written to the encoder for which Bytes() returns no error, NewDecoder on
\* those bytes yields through Next/Read exactly the same timestamps, same
\* count and same order, whichever frame was chosen.
C3_TimestampRoundTrip ==
  (tsPc = "decoded" /\ Len(tsEncoder) > 0 /\ ~tsRet.err) =>
     /\ ~tsRead.panic
     /\ tsRead.ts = tsEncoder

\* the scaled deltas reduce returns are all equal; a raw delta is above 2^60-1
AllEqualFrom2(deltas) == \A i \in 3..Len(deltas) : deltas[i] = deltas[2]
ScaledEqual == AllEqualFrom2(encoder_reduce(tsEncoder).deltas)
LargeDelta == \E i \in 2..Len(tsEncoder) : SLt(I64(MaxValue), RawDelta(i))

\* C9: frame selection.  For n > 0 buffered timestamps Bytes() emits a
\* frame whose upper nibble is RLE iff n > 60 and all scaled deltas at
\* indices >= 1 are equal; otherwise Raw, of length 1 + 8*n, iff the largest
\* raw delta exceeds 2^60-1; otherwise Packed.  For an empty buffer Bytes()
\* returns an empty byte sequence and no error.
C9_FrameSelection ==
  tsPc = "encoded" =>
     IF Len(tsEncoder) = 0 THEN ~tsRet.err /\ tsRet.bytes = <<>>
     ELSE IF tsRet.err \/ tsRet.bytes = <<>> THEN FALSE
     ELSE IF Len(tsEncoder) > 60 /\ ScaledEqual THEN Kind = EncodingRLE
     ELSE IF LargeDelta
          THEN Kind = EncodingRaw /\ Len(tsRet.bytes) = 1 + 8 * Len(tsEncoder)
     ELSE Kind = EncodingPacked

\* the RLE frame of ts with step d and mod 10^e
RLEFrame(ts, d, e) ==
  <<16 * EncodingRLE + e>> \o PutUint64(U64(ts[1]))
     \o PutUvarint(U64(DivPow10(d, Pow10W(e)))) \o PutUvarint(W(Len(ts)))

\* C10: RLE frames preserve length and values.  For n > 60 timestamps whose
\* consecutive differences all equal d, Bytes() emits an RLE frame holding
\* first = ts[0], varint d / mod and varint count n (mod the power of ten
\* in the header's lower nibble), and decoding it yields exactly the n
\* timestamps ts[0], ts[0]+d, ..., ts[0]+(n-1)*d, equal to the input.
C10_RLEPreserves ==
  (tsPc \in {"encoded", "decoded"} /\ Len(tsEncoder) > 60 /\ Uniform) =>
     /\ ~tsRet.err
     /\ \E e \in 0..12 :
           /\ DividesPow10(Pow10W(e), RawDelta(2))
           /\ tsRet.bytes = RLEFrame(tsEncoder, RawDelta(2), e)
     /\ tsPc = "decoded" =>
           /\ ~tsRead.panic
           /\ Len(tsRead.ts) = Len(tsEncoder)
           /\ tsRead.ts[1] = tsEncoder[1]
           /\ \A k \in 2..Len(tsRead.ts) :
                 tsRead.ts[k] = Add64(tsRead.ts[k - 1], RawDelta(2))
           /\ tsRead.ts = tsEncoder

\* C10 witness: t0, t0+1s, ..., t0+100s was encoded as an RLE frame with
\* varint delta 1 and count 101, and read back whole
C10_Witness ==
  /\ tsPc = "decoded" /\ Len(tsEncoder) = 101 /\ Uniform
  /\ tsEncoder[1] = T0 /\ RawDelta(2) = Pow10W(9)
  /\ tsRet.bytes = <<25, 20, 4, 83, 21, 219, 14, 204, 0, 1, 101>>
  /\ tsRead.ts = tsEncoder

\* a value handed to simple8b, a scaled delta (delta - min) / mod at an
\* index >= 1, is above the ceiling 2^60-1
AnyAbove(deltas) == \E i \in 2..Len(deltas) : UGt(U64(deltas[i]), MaxValue)
ScaledTooBig == AnyAbove(encoder_reduce(tsEncoder).deltas)

\* C11: raw fallback instead of failure.  For every non-empty sequence of
\* timestamps Bytes() returns no error, and whenever a value to be
\* bit-packed, a scaled delta (delta - min) / mod, exceeds 2^60-1 the frame
\* is Raw rather than Packed.
C11_RawFallback ==
  (tsPc = "encoded" /\ Len(tsEncoder) > 0) =>
     IF tsRet.err \/ tsRet.bytes = <<>> THEN FALSE
     ELSE (ScaledTooBig /\ Kind # EncodingRLE) => Kind = EncodingRaw

\* ------------------------------------------------------------------------
\* Claims about package delta and reduce (checked under SpecDelta)
\* ------------------------------------------------------------------------

\* the deltas forIn[i] - forIn[i-1], i >= 1 (0-based)
ForDelta(i) == Sub64(forIn[i], forIn[i - 1])

\* C12: FOR/delta round trip.  For every sequence x of int64 (no overflow),
\* with (min, max, mod, rle, deltas) = FORDelta10(x),
\* InverseFORDelta10(min, mod, deltas) equals x element by element; for
\* an empty x both return an empty sequence.
C12_FORDeltaRoundTrip ==
  forPc = "back" =>
     /\ forBack.dst = forIn
     /\ Len(forIn) = 0 => (forOut.dst = <<>> /\ forBack.dst = <<>>)

\* ------------------------------------------------------------------------
\* Claims about single calls on the streaming Encoder (checked under
\* SpecStream)
\* ------------------------------------------------------------------------

\* the pending values of an Encoder, and a is the end of b
Pending(e) == Slice(e.buf, e.h, e.t)
IsSuffix(a, b) ==
  IF Len(a) > Len(b) THEN FALSE ELSE a = Slice(b, Len(b) - Len(a), Len(b))
\* the Encoder is full and its pending values cannot be packed
FullAndStuck(e) ==
  IF e.t >= Len(e.buf) THEN Encode(Pending(e)).err ELSE FALSE

\* C13 as stated: Write always accepts.  Every call Write(v), in any
\* reachable state and for any v including v > 2^60-1, returns no error
\* and appends v to the end of the pending values.
C13_WriteAlwaysAccepts ==
  [][\A v \in SpineVals \cup DevVals :
        Write(v) => /\ ~ret'.err
                    /\ IsSuffix(Pending(encoder'), Append(Pending(encoder), v))
                    /\ Pending(encoder') # <<>>]_vars

\* C13 amended: Write(v) returns an error exactly when the buffer is full
\* (240 pending slots used) and the flush it has to do fails on an
\* out-of-range pending value; the Encoder is then left as it was and v is
\* not stored.  Every other Write(v) returns no error and appends v to the
\* end of the pending values.
C13_WriteAcceptsUnlessStuck ==
  [][\A v \in SpineVals \cup DevVals :
        Write(v) =>
           IF FullAndStuck(encoder)
           THEN ret'.err /\ encoder' = encoder
           ELSE /\ ~ret'.err
                /\ IsSuffix(Pending(encoder'), Append(Pending(encoder), v))
                /\ Pending(encoder') # <<>>]_vars

\* C13 witness: the 241st Write, on a buffer of 240 out-of-range values,
\* returned the error of its flush
C13_Witness ==
  /\ ret.op = "Write" /\ ret.err /\ nWrites = 241
  /\ encoder.t = 240 /\ encoder.h = 0 /\ UGt(encoder.buf[1], MaxValue)

\* ------------------------------------------------------------------------
\* Claims about the decoders (checked under SpecDec)
\* ------------------------------------------------------------------------

\* C14: no panic on malformed input.  NewDecoder(b) of package timestamp
\* completes without a panic for every byte sequence b, including a
\* non-empty b shorter than the 17-byte Packed header or the 9-byte RLE
\* prefix, and an RLE frame whose varint count is 0.
C14_NoPanicOnMalformed ==
  (decIn.kind = "td" /\ decRet.op = "NewDecoder") => ~decRet.panic

\* ------------------------------------------------------------------------
\* Claims about min and divisor (checked under SpecDelta)
\* ------------------------------------------------------------------------

\* m is the smallest of the deltas of forIn at indices >= 1
SmallestDelta(m) ==
  /\ \E i \in 2..Len(forIn) : ForDelta(i) = m
  /\ \A i \in 2..Len(forIn) : ~SLt(ForDelta(i), m)

\* C15: frame-of-reference minimum.  The min returned by reference10 /
\* FORDelta10 and computed by the timestamp encoder's reduce is the
\* smallest delta over indices 1..end only; index 0, the absolute starting
\* value, never influences it.
C15_MinOverDeltasOnly ==
  /\ (forPc \in {"for", "back"} /\ Len(forIn) >= 2) => SmallestDelta(forOut.min)
  /\ (forPc = "reduced" /\ Len(forIn) >= 2) => SmallestDelta(redOut.min)

\* x is 10^e with 0 <= e <= 12, divides every delta of forIn at indices
\* >= 1, and no larger power of ten up to 10^12 does
DividesAll(x) == \A i \in 2..Len(forIn) : DividesPow10(x, ForDelta(i))
LargestPow10(x) ==
  /\ \E e \in 0..12 : x = Pow10W(e)
  /\ x # Zero
  /\ DividesAll(x)
  /\ \A e \in 0..12 : DividesAll(Pow10W(e)) => ~SLt(x, Pow10W(e))
  /\ (\A i \in 2..Len(forIn) : ForDelta(i) = Zero) => x = Pow10W(12)

\* C16: divisor inference.  For every delta sequence (positive, zero or
\* negative deltas) the divisor loop terminates and the divisor returned,
\* by reference10 / FORDelta10 and by reduce, is 10^e with 0 <= e <= 12, is
\* never 0, divides every delta at index >= 1 and is the largest such power
\* of ten not above 10^12 (10^12 with no deltas or all deltas 0).
C16_DivisorInference ==
  /\ (forPc \in {"for", "back"} /\ Len(forIn) >= 1) => LargestPow10(forOut.mod)
  /\ (forPc = "reduced" /\ Len(forIn) >= 1) => LargestPow10(redOut.divisor)

\* C16 witness: FORDelta10 of t0+1s, t0, t0+1s, deltas -1s and +1s, has
\* returned the divisor 10^9
C16_Witness ==
  /\ forPc = "for" /\ Len(forIn) = 3
  /\ IsNeg(ForDelta(2)) /\ ~IsNeg(ForDelta(3))
  /\ forOut.mod = Pow10W(9) /\ LargestPow10(forOut.mod)

\* ------------------------------------------------------------------------
\* Claims about the slots Decode and DecodeAll write (checked under SpecBulk)
\* ------------------------------------------------------------------------

\* C17: unpack writes exactly n values.  Decoding a word with selector s
\* into an array of zeros leaves every slot at index >= n(s) as it was (a
\* selector-1 word writes exactly 120 copies of 1), and DecodeAll into a
\* destination sized by the summed counts never writes past its end.
C17_UnpackWritesExactlyN ==
  /\ bulkPc = "oneDecoded" =>
       \A i \in (decOne.n + 1)..240 : decOne.dst[i] = W(0)
  /\ (bulkPc = "allDecoded" /\ ~counted.err /\ counted.n = Len(bulkIn)) =>
       /\ decAll.outcome = "returned"
       /\ ~DecodeAll(Rep(W(0), Len(bulkIn)), encAll.words).oob

\* ------------------------------------------------------------------------
\* Claims about the Encoder's indexes (checked under SpecStream)
\* ------------------------------------------------------------------------

\* the number of values in the words flush has put into bytes[:bp]
PackedCount(e) == CountBytes(Slice(e.bytes, 0, e.bp)).n
\* flush applied to e packs every pending value
FlushDrains(e) ==
  IF e.t > 0 /\ e.h <= e.t
  THEN ~Encode(Pending(e)).err /\ Encode(Pending(e)).n = e.t - e.h
  ELSE FALSE

\* C18: streaming encoder index invariant.  In every state reachable by
\* Write, Bytes and Reset calls from NewEncoder, 0 <= h <= t <= 240, the
\* pending values (those written and not yet packed) are exactly buf[h:t]
\* in write order, and a flush that packs all pending values leaves h and t
\* both 0.
C18_EncoderIndexes ==
  /\ 0 <= encoder.h /\ encoder.h <= encoder.t /\ encoder.t <= 240
  /\ IsSuffix(Pending(encoder), written)
  /\ Len(written) = PackedCount(encoder) + Len(Pending(encoder))
  /\ encoder.h = encoder.t => encoder.t = 0
  /\ FlushDrains(encoder) =>
       Encoder_flush(encoder).e.h = 0 /\ Encoder_flush(encoder).e.t = 0
  /\ (ret.op = "Bytes" /\ ~ret.err) => encoder.h = 0 /\ encoder.t = 0

\* C18 witness: the 241st Write found the buffer full, flushed one word of
\* 60 values and moved the other 180 down before storing its value
C18_Witness ==
  /\ ret.op = "Write" /\ ~ret.err /\ nWrites = 241
  /\ encoder.h = 0 /\ encoder.t = 181 /\ encoder.bp = 8
  /\ PackedCount(encoder) = 60 /\ Len(written) = 241
  /\ IsSuffix(Pending(encoder), written)

\* ------------------------------------------------------------------------
\* Claims about the decoders' cursors (checked under SpecDec)
\* ------------------------------------------------------------------------

\* C19: streaming decoder cursor invariant.  In every state reachable by
\* Next and Read calls on a simple8b Decoder, before any word is decoded
\* and after the input is exhausted included, 0 <= i <= n, n being the
\* count of the word decoded last, and Read never indexes outside the
\* 240-slot buffer.
C19_DecoderCursor ==
  (decIn.kind = "s8" /\ decPc \in {"s8", "panicked"}) =>
     /\ 0 <= s8.i /\ s8.i <= s8.n
     /\ ~(decRet.op = "Read" /\ decRet.panic)

\* C20: exhaustion is permanent.  For the simple8b Decoder and for the
\* timestamp decoder, once Next has returned false every later Next returns
\* false too (until Reset on the simple8b Decoder), Next returns true
\* exactly once per encoded value before that, and bytes left over that do
\* not form a full 8-byte word never make Next return true.
C20_ExhaustionPermanent ==
  /\ sawFalse => nTrue = trueAtFalse
  /\ (decRet.op = "Next" /\ nAfter > 0) => ~decRet.ok
  /\ (sawFalse /\ decIn.count >= 0) => trueAtFalse = decIn.count
  /\ (~sawFalse /\ decIn.count >= 0) => nTrue <= decIn.count

\* C20 witness: 241 values followed by 7 further bytes; Next returned true
\* 241 times, then false, and false again on each of the calls after it
C20_Witness ==
  /\ decIn.kind = "s8" /\ decIn.count = 241 /\ Len(decIn.bytes) = 23
  /\ decRet.op = "Next" /\ ~decRet.ok
  /\ sawFalse /\ nAfter = MaxAfter /\ nTrue = 241 /\ trueAtFalse = 241

\* ------------------------------------------------------------------------
\* Claims about Reset on the Encoder (checked under SpecReset)
\* ------------------------------------------------------------------------

\* the writes xs, each error ignored as the caller may, on the Encoder e
RECURSIVE WriteBlock(_, _, _, _)
WriteBlock(e, xs, k, hi) ==
  IF k > hi \/ k > Len(xs) THEN e
  ELSE WriteBlock(Encoder_Write(e, xs[k]).e, xs, k + 1, hi)
RECURSIVE WriteAll(_, _, _)
WriteAll(e, xs, k) ==
  IF k > Len(xs) \/ ~Now(e) THEN e
  ELSE WriteAll(WriteBlock(e, xs, k, k + LoopBlock - 1), xs, k + LoopBlock)
\* what Bytes() returns after the writes xs on a fresh NewEncoder()
FreshBytes(xs) == Encoder_Bytes(WriteAll(NewEncoder, xs, 1))

\* C21: Reset restores the initial state.  After Reset() on an Encoder
\* reached by Write and Bytes calls (one that ended in an out-of-range
\* error or grew the output beyond 128 bytes included), Bytes() with no
\* further writes returns an empty byte sequence and no error, and after
\* any writes Bytes() returns what the same writes followed by Bytes()
\* return on a fresh NewEncoder().
C21_ResetRestores ==
  (ret.op = "Bytes" /\ ~fresh) =>
     /\ nWrites = 0 => (~ret.err /\ ret.bytes = <<>>)
     /\ ret.err = FreshBytes(written).err
     /\ ret.bytes = FreshBytes(written).bytes

\* C21 witness: after a Reset, 240 writes of 255 and Bytes returned the 280
\* bytes a fresh Encoder returns for them
C21_Witness ==
  /\ ret.op = "Bytes" /\ ~fresh /\ ~ret.err
  /\ Len(written) = 240 /\ written[1] = Mask(8)
  /\ Len(ret.bytes) = 280
  /\ ret.bytes = FreshBytes(written).bytes

=============================================================================
